---- MODULE Spec2Model ----
(***************************************************************************)
(* A model of backtest.py: the incremental candle synchroniser             *)
(* (fetch_historical_data, update_all_coins), the return aggregation       *)
(* (analyze_periodic_distribution) and the histogram                       *)
(* (CryptoApp.calculate_distribution, CryptoApp.analyze_and_visualize).    *)
(*                                                                         *)
(* A candle's timestamp candle_date_time_kst is a day number 1, 2, ...;    *)
(* pd.to_datetime, strftime and the CSV text of a timestamp are taken as   *)
(* order-preserving and one-to-one on day numbers.  update_all_coins reads *)
(* no column but candle_date_time_kst, so a row of the synchroniser is its *)
(* day number; the analysis reads trade_price too, so a row there is a     *)
(* record of both.                                                         *)
(***************************************************************************)
EXTENDS Integers, Sequences, FiniteSets, TLC

\* ------------------------------------------------------------- bounds
\* The source holds one daily candle per day 1..now, now <= MaxDay.
MaxDay == 3
\* A response page holds at most MaxPage rows (count=200 in the code).
MaxPage == 2

\* trade_price is one of 1..MaxPrice.
MaxPrice == 3
\* A return column given to calculate_distribution holds at most MaxLen values,
\* each a multiple of half a percent between -MaxHalf/2 and MaxHalf/2.
MaxLen == 3
MaxHalf == 4
\* bin_size is one of 1..MaxBin.
MaxBin == 2

\* ---------------------------------------------------------- constants
\* retries = 3 in fetch_historical_data.
Retries == 3

\* The KRW markets of the exchange, in the order fetch_coin_list returns them.
CoinList == <<"KRW-BTC", "KRW-ETH">>
Coins == {CoinList[k] : k \in 1..Len(CoinList)}

\* fetch_coin_list: the listed KRW markets on a 200, [] on any other status.
fetch_coin_list(ok, listed) == IF ok THEN listed ELSE <<>>

VARIABLES
    store,     \* store[c]: the rows of <c>_data.csv, <<>> when there is no file
    now,       \* the latest day the source holds a candle for
    pc,        \* download_all_data: "idle", "fetching", "done", "crashed"
    coins,     \* update_all_coins: the list fetch_coin_list returned
    i,         \* update_all_coins: index in coins of the coin being updated
    retries,   \* fetch_historical_data: attempts left
    existing,  \* update_all_coins: existing_data of the coin last loaded
    resp,      \* the last response of the candle endpoint
    outcome,   \* outcome[c]: how the update of c ended in this batch
    writes,    \* writes[c]: save_coin_data calls for c in this batch
    saved,            \* analysis: the rows of the selected coin's CSV file
    selected_period,  \* analysis: period_var
    df_return,        \* analysis: what analyze_periodic_distribution returned
    bin_size,         \* calculate_distribution: bin_size
    distribution,     \* calculate_distribution: the bins returned
    result            \* analysis: how the request ended, "none" before it

syncVars == <<store, now, pc, coins, i, retries, existing, resp, outcome, writes>>

analysisVars == <<saved, selected_period, df_return, bin_size, distribution, result>>

vars == <<syncVars, analysisVars>>

\* ------------------------------------------------------------ helpers
RECURSIVE SeqsUpTo(_, _)
\* All sequences over S of length at most n.
SeqsUpTo(S, n) ==
    IF n = 0 THEN {<<>>}
    ELSE LET shorter == SeqsUpTo(S, n - 1)
         IN  shorter \cup {Append(s, x) : s \in {t \in shorter : Len(t) = n - 1}, x \in S}

Range(s) == {s[k] : k \in 1..Len(s)}

\* Series.max() of a non-empty column.
MaxOf(s) == CHOOSE m \in Range(s) : \A x \in Range(s) : x <= m

IsPrefix(s, t) == Len(s) <= Len(t) /\ SubSeq(t, 1, Len(s)) = s

StrictlyIncreasing(s) == \A k \in 1..(Len(s) - 1) : s[k] < s[k + 1]

\* A page as a well-behaved source sends it: distinct days, newest first.
ReverseChronological(s) == \A k \in 1..(Len(s) - 1) : s[k] > s[k + 1]

\* ------------------------------------------------------------- source
\* Any page the endpoint may answer with: rows among the days it holds.
AnyPages(latest) == SeqsUpTo(1..latest, MaxPage)

\* The pages of a source that sends distinct days in reverse-chronological order.
OrderedPages(latest) == {p \in AnyPages(latest) : ReverseChronological(p)}

\* ------------------------------------------------ fetch_historical_data
\* df[::-1]
ReversedNoOp(df) == df
Reversed(df) == [k \in 1..Len(df) |-> df[Len(df) + 1 - k]]

\* What fetch_historical_data returns after a response that ends the loop:
\* 200 with rows -> the rows reversed; 200 without rows, or a status that is
\* neither 200 nor 429 -> an empty DataFrame.
fetch_result(status, body) ==
    IF status = 200 /\ body # <<>> THEN Reversed(body) ELSE <<>>

\* ------------------------------------------------------- load and save
load_coin_data(c) == store[c]

save_coin_data(c, df) == [store EXCEPT ![c] = df]

\* ----------------------------------------------------- update_all_coins
\* new_data[new_data['candle_date_time_kst'] > last_date]
FilterNewInclusive(new_data, last_date) == SelectSeq(new_data, LAMBDA d : d >= last_date)
FilterNew(new_data, last_date) == SelectSeq(new_data, LAMBDA d : d > last_date)

\* The frame new_data the final `if not new_data.empty` sees (lines 73-84).
new_rows(existing_data, fetched) ==
    IF existing_data = <<>> THEN fetched
    ELSE FilterNew(fetched, MaxOf(existing_data))

\* pd.concat([existing_data, new_data], ignore_index=True)
Concat(existing_data, new_data) == existing_data \o new_data

\* `if not new_data.empty` at line 86
ShouldSaveAlways(new_data) == TRUE
ShouldSave(new_data) == new_data # <<>>

\* The rest of update_all_coins and of download_all_data once coin i is done:
\* the next coin, or the end of the loop.
Advance ==
    /\ i' = i + 1
    /\ retries' = Retries
    /\ pc' = IF i + 1 > Len(coins) THEN "done" ELSE "fetching"

\* The body of the loop for coin c after fetch_historical_data returned `fetched`.
Merge(c, fetched) ==
    LET existing_data == load_coin_data(c)
        new_data == new_rows(existing_data, fetched)
    IN  /\ existing' = existing_data
        /\ IF ShouldSave(new_data)
           THEN /\ store' = save_coin_data(c, Concat(existing_data, new_data))
                /\ writes' = [writes EXCEPT ![c] = @ + 1]
                /\ outcome' = [outcome EXCEPT ![c] = "updated"]
           ELSE /\ store' = store
                /\ writes' = writes
                /\ outcome' = [outcome EXCEPT ![c] = "no_new_data"]
        /\ Advance

\* download_all_data is pressed: the market endpoint answers 200 (ok) with the
\* listed markets, or another status.
StartBatch(ok, listed) ==
    /\ pc \in {"idle", "done", "crashed"}
    /\ coins' = fetch_coin_list(ok, listed)
    /\ i' = 1
    /\ retries' = Retries
    /\ outcome' = [c \in Coins |-> "pending"]
    /\ writes' = [c \in Coins |-> 0]
    /\ pc' = IF fetch_coin_list(ok, listed) # <<>> THEN "fetching" ELSE "done"
    /\ UNCHANGED <<store, now, existing, resp, analysisVars>>

\* The candle endpoint answers 200 with a page.
Respond200(body) ==
    /\ pc = "fetching"
    /\ resp' = [coin |-> coins[i], status |-> 200, body |-> body]
    /\ Merge(coins[i], fetch_result(200, body))
    /\ UNCHANGED <<now, coins, analysisVars>>

\* The candle endpoint answers with a status that is neither 200 nor 429.
RespondError ==
    /\ pc = "fetching"
    /\ resp' = [coin |-> coins[i], status |-> 500, body |-> <<>>]
    /\ Merge(coins[i], fetch_result(500, <<>>))
    /\ UNCHANGED <<now, coins, analysisVars>>

\* The candle endpoint answers 429.  With attempts left the loop goes round;
\* with none left fetch_historical_data falls off its loop and returns None,
\* and new_data.empty (line 80 or 86) raises AttributeError, which ends
\* update_all_coins and download_all_data.
Respond429 ==
    /\ pc = "fetching"
    /\ resp' = [coin |-> coins[i], status |-> 429, body |-> <<>>]
    /\ existing' = load_coin_data(coins[i])
    /\ retries' = retries - 1
    /\ IF retries - 1 > 0
       THEN /\ pc' = "fetching"
            /\ outcome' = outcome
       ELSE /\ pc' = "crashed"
            /\ outcome' = [outcome EXCEPT ![coins[i]] = "AttributeError"]
    /\ UNCHANGED <<store, now, coins, i, writes, analysisVars>>

\* A day passes: the source holds one more candle.
Tick ==
    /\ now < MaxDay
    /\ now' = now + 1
    /\ UNCHANGED <<store, pc, coins, i, retries, existing, resp, outcome, writes, analysisVars>>

\* ===================================================== the analysis
\* A return is NaN or the exact quotient num/den, den > 0.  (The code computes
\* in binary floating point; the model computes exactly.)
NaN == [nan |-> TRUE, num |-> 0, den |-> 1]
Ratio(n, d) == [nan |-> FALSE, num |-> n, den |-> d]

\* a <= b, a < b for two quotients.
Leq(a, b) == a.num * b.den <= b.num * a.den
Less(a, b) == a.num * b.den < b.num * a.den

\* An integer as a quotient.
Whole(n) == Ratio(n, 1)

\* The calendar: day 1 is a Sunday and the 30th of a month of 31 days, so
\* day 2 is the Monday that closes a 'W-MON' week and the last day of the
\* month, and day 3 opens the next week and the next month.
WeekOf(d) == (d + 4) \div 7
MonthOf(d) == IF d <= 2 THEN 1 ELSE 2 + ((d - 3) \div 28)

\* Series.pct_change() * 100 of a column of prices: NaN first, then the
\* percent change from the previous value.
pct_change(prices) ==
    [k \in 1..Len(prices) |->
        IF k = 1 THEN NaN
        ELSE Ratio((prices[k] - prices[k - 1]) * 100, prices[k - 1])]

Column(rows, name) == [k \in 1..Len(rows) |-> rows[k][name]]

\* The period of day d under a resample rule: 'W-MON' or 'M'.
PeriodOf(rule, d) == IF rule = "W-MON" THEN WeekOf(d) ELSE MonthOf(d)

\* df.resample(rule, on='candle_date_time_kst').last(): the last row of each
\* period that has rows (the days of the model span two adjacent periods).
resample_last(rows, rule) ==
    SelectSeq(rows, LAMBDA r :
        \A q \in Range(rows) :
            PeriodOf(rule, q.candle_date_time_kst) = PeriodOf(rule, r.candle_date_time_kst)
                => q.candle_date_time_kst <= r.candle_date_time_kst)

\* analyze_periodic_distribution(df, period): the DataFrame with its 'return'
\* column for daily; for weekly and monthly the Series of period returns
\* (the ['trade_price'] of a DataFrame is a Series).
analyze_periodic_distribution(rows, period) ==
    IF period = "daily"
    THEN [kind |-> "DataFrame", values |-> pct_change(Column(rows, "trade_price"))]
    ELSE IF period = "weekly"
    THEN [kind |-> "Series",
          values |-> pct_change(Column(resample_last(rows, "W-MON"), "trade_price"))]
    ELSE [kind |-> "Series",
          values |-> pct_change(Column(resample_last(rows, "M"), "trade_price"))]

\* ------------------------------------------------ calculate_distribution
\* The values min(), max() and np.histogram look at: NaN is skipped.
Finite(values) == SelectSeq(values, LAMBDA v : ~v.nan)

MinValue(values) ==
    CHOOSE m \in Range(Finite(values)) : \A v \in Range(Finite(values)) : Leq(m, v)
MaxValue(values) ==
    CHOOSE m \in Range(Finite(values)) : \A v \in Range(Finite(values)) : Leq(v, m)

\* math.floor(v / b) and math.ceil(v / b) for a quotient v and a whole b > 0.
Floor(v, b) == v.num \div (v.den * b)
Ceil(v, b) == -((-v.num) \div (v.den * b))

min_return(values, b) == Floor(MinValue(values), b) * b
max_return(values, b) == Ceil(MaxValue(values), b) * b

\* np.arange(start, stop, step) for whole numbers, step > 0.
arange(start, stop, step) ==
    LET n == IF stop <= start THEN 0 ELSE ((stop - start - 1) \div step) + 1
    IN  [k \in 1..n |-> start + (k - 1) * step]

bin_edges(values, b) ==
    arange(min_return(values, b), max_return(values, b) + b, b)

\* np.histogram: bin j is [edges[j], edges[j+1]), the last one [.., ..].
InBinHalfOpen(v, edges, j) ==
    /\ Leq(Whole(edges[j]), v)
    /\ Less(v, Whole(edges[j + 1]))
InBin(v, edges, j) ==
    /\ Leq(Whole(edges[j]), v)
    /\ IF j = Len(edges) - 1
       THEN Leq(v, Whole(edges[j + 1]))
       ELSE Less(v, Whole(edges[j + 1]))

histogram(values, edges) ==
    [j \in 1..(Len(edges) - 1) |->
        Cardinality({k \in 1..Len(values) : ~values[k].nan /\ InBin(values[k], edges, j)})]

RECURSIVE SumRange(_, _, _)
\* s[lo] + ... + s[hi], by halves.
SumRange(s, lo, hi) ==
    IF lo > hi THEN 0
    ELSE IF lo = hi THEN s[lo]
    ELSE LET mid == (lo + hi) \div 2
         IN  SumRange(s, lo, mid) + SumRange(s, mid + 1, hi)

\* n.sum()
SumSeq(s) == SumRange(s, 1, Len(s))

\* f"{b:.0f}%" if b == 0 else f"{b:+.0f}%"
Label(b) ==
    IF b = 0 THEN "0%"
    ELSE IF b > 0 THEN "+" \o ToString(b) \o "%"
    ELSE ToString(b) \o "%"

\* The Series calculate_distribution returns for a DataFrame whose 'return'
\* column has a finite value: one bin per edge but the last, labelled by its
\* lower edge; density * 100 * bin_size is count / sum(counts) * 100.
bins_of(values, b) ==
    LET edges == bin_edges(values, b)
        counts == histogram(values, edges)
        total == SumSeq(counts)
    IN  [j \in 1..(Len(edges) - 1) |->
            [label |-> Label(edges[j]),
             lower |-> edges[j],
             upper |-> edges[j + 1],
             count |-> counts[j],
             percent |-> Ratio(100 * counts[j], total)]]

\* How calculate_distribution(df) ends: a Series has no .columns
\* (AttributeError); a column with no finite value has min() NaN, and
\* math.floor(NaN) raises ValueError; otherwise the bins.
distribution_error(frame) ==
    IF frame.kind = "Series" THEN "AttributeError"
    ELSE IF Finite(frame.values) = <<>> THEN "ValueError"
    ELSE "none"

calculate_distribution(frame, b) ==
    IF distribution_error(frame) # "none" THEN <<>> ELSE bins_of(frame.values, b)

\* What analyze_and_visualize draws for the bins: the bars, or the text
\* that says there is no data.
draw(bins) == IF bins # <<>> THEN "histogram" ELSE "no_data"

\* calculate_distribution on its own, on the return column drawn at the start.
CalculateDistribution ==
    /\ result = "none"
    /\ distribution' = calculate_distribution(df_return, bin_size)
    /\ result' = IF distribution_error(df_return) # "none"
                 THEN distribution_error(df_return)
                 ELSE draw(calculate_distribution(df_return, bin_size))
    /\ UNCHANGED <<saved, selected_period, df_return, bin_size, syncVars>>

\* analyze_and_visualize with a coin selected: no period selected -> the input
\* dialog; no rows -> the data dialog; otherwise the returns, the bins (with the
\* default bin_size) and the drawing, or the exception that ends the callback.
AnalyzeAndVisualize ==
    /\ result = "none"
    /\ IF selected_period = ""
       THEN /\ result' = "input_error"
            /\ UNCHANGED <<df_return, distribution>>
       ELSE IF saved = <<>>
       THEN /\ result' = "no_file"
            /\ UNCHANGED <<df_return, distribution>>
       ELSE LET frame == analyze_periodic_distribution(saved, selected_period)
            IN  /\ df_return' = frame
                /\ distribution' = calculate_distribution(frame, bin_size)
                /\ result' = IF distribution_error(frame) # "none"
                             THEN distribution_error(frame)
                             ELSE draw(calculate_distribution(frame, bin_size))
    /\ UNCHANGED <<saved, selected_period, bin_size, syncVars>>

\* ============================================================== specs
SyncInit ==
    /\ store = [c \in Coins |-> <<>>]
    /\ now = 1
    /\ pc = "idle"
    /\ coins = <<>>
    /\ i = 1
    /\ retries = Retries
    /\ existing = <<>>
    /\ resp = [coin |-> CoinList[1], status |-> 0, body |-> <<>>]
    /\ outcome = [c \in Coins |-> "pending"]
    /\ writes = [c \in Coins |-> 0]

AnalysisIdle ==
    /\ saved = <<>>
    /\ selected_period = ""
    /\ df_return = [kind |-> "DataFrame", values |-> <<>>]
    /\ bin_size = 1
    /\ distribution = <<>>
    /\ result = "none"

Init == SyncInit /\ AnalysisIdle

\* Both markets listed; the source sends its pages newest first, distinct days.
Next ==
    \/ \E ok \in BOOLEAN : StartBatch(ok, CoinList)
    \/ \E body \in OrderedPages(now) : Respond200(body)
    \/ RespondError
    \/ Respond429
    \/ Tick

\* One market listed; the source sends any page at all.
NextAnySource ==
    \/ \E ok \in BOOLEAN : StartBatch(ok, SubSeq(CoinList, 1, 1))
    \/ \E body \in AnyPages(now) : Respond200(body)
    \/ RespondError
    \/ Respond429
    \/ Tick

Spec == Init /\ [][Next]_vars

SpecAnySource == Init /\ [][NextAnySource]_vars

\* The CSV files a synchroniser fed by a well-behaved source leaves: rows of
\* strictly increasing days, each with a price.
SavedSeries ==
    {s \in SeqsUpTo([candle_date_time_kst : 1..MaxDay, trade_price : 1..MaxPrice], MaxDay) :
        StrictlyIncreasing(Column(s, "candle_date_time_kst"))}

\* The return columns calculate_distribution is tried on.
ReturnColumns ==
    SeqsUpTo({Ratio(n, 2) : n \in (-MaxHalf)..MaxHalf}, MaxLen) \ {<<>>}

InitAnalyze ==
    /\ SyncInit
    /\ saved \in SavedSeries
    /\ selected_period \in {"", "daily", "weekly", "monthly"}
    /\ df_return = [kind |-> "DataFrame", values |-> <<>>]
    /\ bin_size = 1
    /\ distribution = <<>>
    /\ result = "none"

NextAnalyze == AnalyzeAndVisualize

SpecAnalyze == InitAnalyze /\ [][NextAnalyze]_vars

InitHist ==
    /\ SyncInit
    /\ saved = <<>>
    /\ selected_period = "daily"
    /\ df_return \in {[kind |-> "DataFrame", values |-> v] : v \in ReturnColumns}
    /\ bin_size \in 1..MaxBin
    /\ distribution = <<>>
    /\ result = "none"

NextHist == CalculateDistribution

SpecHist == InitHist /\ [][NextHist]_vars

\* ============================================================= claims
\* The update of c is over in this batch, and it was the last thing the candle
\* endpoint was asked for: existing is what the file of c held before it, resp
\* the response that ended it.
Processed(c) == resp.coin = c /\ outcome[c] # "pending"

\* The rows of a page that are newer than every stored row.
NewerRows(body, stored) == {k \in 1..Len(body) : \A x \in Range(stored) : body[k] > x}

\* C1: for a non-empty stored series a sync only appends: the series stored
\* before it is a prefix of the series stored after it, and every appended
\* candle is strictly newer than the newest candle stored before, whatever
\* page the source sent.
Thm_C1 ==
    \A c \in Coins :
        (Processed(c) /\ existing # <<>>) =>
            /\ IsPrefix(existing, store[c])
            /\ \A k \in (Len(existing) + 1)..Len(store[c]) :
                   \A x \in Range(existing) : store[c][k] > x

\* A sync of a non-empty series appended rows from a page that also held a row
\* at or before the cursor.
Wit_C1 ==
    \E c \in Coins :
        /\ Processed(c)
        /\ existing # <<>>
        /\ Len(store[c]) > Len(existing)
        /\ \E k \in 1..Len(resp.body) : \E x \in Range(existing) : resp.body[k] <= x

\* C2: with a source whose pages hold distinct days newest first, after any
\* sequence of syncs from an empty store every stored series is strictly
\* increasing by timestamp (so no timestamp occurs twice).
Thm_C2 == \A c \in Coins : StrictlyIncreasing(store[c])

\* An incremental sync appended two rows of one page to a non-empty series.
Wit_C2 ==
    \E c \in Coins :
        /\ Processed(c)
        /\ outcome[c] = "updated"
        /\ existing # <<>>
        /\ Len(store[c]) >= Len(existing) + 2

\* C3: when the source answers rate-limited on all 3 attempts for an asset, the
\* sync of that asset ends in a reported SourceUnavailable outcome, not in an
\* unhandled error, and its stored series is what it was before.
CEx_C3 ==
    \A c \in Coins :
        (resp.coin = c /\ resp.status = 429 /\ retries = 0) =>
            /\ outcome[c] = "SourceUnavailable"
            /\ pc # "crashed"
            /\ store[c] = existing

\* C4: a source failure on one asset never aborts the batch: when the batch is
\* over, every asset of the list has been processed.
CEx_C4 ==
    pc \in {"done", "crashed"} =>
        \A k \in 1..Len(coins) : outcome[coins[k]] # "pending"

\* C5: when the stored series is non-empty, the source holds newer candles and
\* answers 200 with a page that respects the upper-bound cursor `to` (no row
\* after the stored maximum), the sync brings the series up to date: the
\* stored maximum after it is the source's latest day.
CEx_C5 ==
    [][ ( /\ pc = "fetching"
          /\ i' = i + 1
          /\ resp'.status = 200
          /\ resp'.body # <<>>
          /\ store[coins[i]] # <<>>
          /\ now > MaxOf(store[coins[i]])
          /\ \A k \in 1..Len(resp'.body) : resp'.body[k] <= MaxOf(store[coins[i]]) )
        => MaxOf(store'[coins[i]]) = now ]_vars

\* C6: a sync of one asset writes the store exactly once when the page holds a
\* new candle (any row on a first sync, a row newer than the stored maximum
\* otherwise) and not at all otherwise; it never writes twice, and the write
\* carries the whole merged series: the rows stored before, then the new rows.
Thm_C6 ==
    \A c \in Coins :
        /\ writes[c] <= 1
        /\ Processed(c) =>
              LET fresh == resp.status = 200 /\ NewerRows(resp.body, existing) # {}
              IN  /\ writes[c] = (IF fresh THEN 1 ELSE 0)
                  /\ IsPrefix(existing, store[c])
                  /\ Len(store[c]) = Len(existing)
                        + (IF resp.status = 200
                           THEN Cardinality(NewerRows(resp.body, existing)) ELSE 0)
                  /\ \A k \in (Len(existing) + 1)..Len(store[c]) :
                         \E n \in NewerRows(resp.body, existing) : resp.body[n] = store[c][k]

\* One batch wrote the file of one asset once and did not write another's.
Wit_C6 ==
    \E c, d \in Coins :
        /\ pc = "done"
        /\ outcome[c] = "updated" /\ writes[c] = 1
        /\ outcome[d] = "no_new_data" /\ writes[d] = 0

\* The returns given to calculate_distribution and its bins, once it is over.
Counted == SumSeq([j \in 1..Len(distribution) |-> distribution[j].count])
PercentTimesTotal == SumSeq([j \in 1..Len(distribution) |-> distribution[j].percent.num])

\* C7: for any non-empty return series and any bin width every return is
\* counted in exactly one bin: the counts sum to the number of returns and
\* the proportions to 100 percent.
CEx_C7 ==
    (result # "none" /\ Finite(df_return.values) # <<>>) =>
        /\ distribution # <<>>
        /\ Counted = Len(df_return.values)
        /\ PercentTimesTotal = 100 * Counted

Returns_C8 == <<Ratio(-2, 2), Ratio(0, 2), Ratio(2, 2)>>

\* C8, as stated: returns [-1, 0, 1] with bin width 1 give three bins labelled
\* "-1%", "0%", "+1%", one observation each.
CEx_C8 ==
    (result # "none" /\ df_return.values = Returns_C8 /\ bin_size = 1) =>
        /\ Len(distribution) = 3
        /\ \A j \in 1..Len(distribution) : distribution[j].count = 1
        /\ [j \in 1..Len(distribution) |-> distribution[j].label] = <<"-1%", "0%", "+1%">>

\* The largest return is a whole multiple of the bin width.
MaxOnEdge ==
    LET m == MaxValue(df_return.values)
    IN  m.num = Ceil(m, bin_size) * bin_size * m.den

\* C8, amended: returns [-1, 0, 1] with bin width 1 give two bins, [-1,0)
\* labelled "-1%" with one observation and [0,1] labelled "0%" with two; in
\* general, when there is a bin at all, a largest return that is a whole
\* multiple of the bin width is counted in the last bin, whose upper (closed)
\* edge is that return and whose label is that return less the bin width.
Thm_C8 ==
    /\ (result # "none" /\ df_return.values = Returns_C8 /\ bin_size = 1) =>
          /\ [j \in 1..Len(distribution) |-> distribution[j].label] = <<"-1%", "0%">>
          /\ [j \in 1..Len(distribution) |-> distribution[j].count] = <<1, 2>>
          /\ [j \in 1..Len(distribution) |-> distribution[j].percent]
                = <<Ratio(100, 3), Ratio(200, 3)>>
    /\ (result # "none" /\ distribution # <<>> /\ MaxOnEdge) =>
          LET last == distribution[Len(distribution)]
              m == MaxValue(df_return.values)
          IN  /\ last.upper * m.den = m.num
              /\ last.label = Label(last.upper - bin_size)
              /\ last.count = Cardinality({k \in 1..Len(df_return.values) :
                                  Leq(Whole(last.upper - bin_size), df_return.values[k])})

\* The bins of [-1, 0, 1] with bin width 1 have been computed.
Wit_C8 ==
    /\ result = "histogram"
    /\ df_return.values = Returns_C8
    /\ bin_size = 1
    /\ MaxOnEdge

\* The observations of the saved series at a period: its rows, or the weeks
\* or months that have a row.
Observations(period) ==
    IF period = "daily" THEN Len(saved)
    ELSE IF period = "weekly"
    THEN Cardinality({WeekOf(saved[k].candle_date_time_kst) : k \in 1..Len(saved)})
    ELSE Cardinality({MonthOf(saved[k].candle_date_time_kst) : k \in 1..Len(saved)})

Periods == {"daily", "weekly", "monthly"}

\* C9: an analysis request on a series with fewer than two observations at the
\* period ends with an explicit no-data result and an empty distribution,
\* never with an unhandled error.
CEx_C9 ==
    (result # "none" /\ selected_period \in Periods /\ Observations(selected_period) < 2) =>
        /\ result \in {"no_file", "no_data"}
        /\ distribution = <<>>

\* C10: an analysis request on a series that spans at least two periods ends,
\* for daily, weekly and monthly alike, with a non-empty sequence of bins.
CEx_C10 ==
    (result # "none" /\ selected_period \in Periods /\ Observations(selected_period) >= 2) =>
        /\ result = "histogram"
        /\ distribution # <<>>

====
